---- MODULE Spec2Model ----
(***************************************************************************)
(* Authchain resolution of the BCMR registry scraper.                      *)
(*                                                                         *)
(*   src/src/lib/fulcrum-client.ts   getOutputSpendingTx (spend check)     *)
(*   src/src/lib/bcmr.ts             resolveAuthchain, getBCMRRegistries   *)
(*   src/src/lib/authchain-cache.ts  load/save of the cache file           *)
(*                                                                         *)
(* Three specifications share this module:                                 *)
(*   SpendSpec  one spend check against a bounded backend                  *)
(*   Spec       repeated resolutions of one authbase on a growing ledger   *)
(*   RunSpec    one run of getBCMRRegistries over a set of candidates      *)
(***************************************************************************)
EXTENDS Integers, Sequences, FiniteSets, TLC

\* `null` of the source; transaction ids are the positive integers.
null == 0

\* const maxChainLength = 1000 (both loops of resolveAuthchain).
maxChainLength == 1000

-----------------------------------------------------------------------------
(* Bounds of the model.                                                    *)

\* SpendSpec: transactions known to the backend, longest history.
SqTx == 3
MaxHist == 4

\* Spec: largest value of Date.now(), extensions of a chain, longest chain
\* that may be closed into a cycle, how many of the first spend checks of
\* a resolution the backend may fail, and failed spend checks in all.
MaxClock == 2
MaxExtend == 2
MaxLoopLen == 1
MaxFaultQuery == 2
MaxFaults == 1

\* RunSpec: longest chain, outputs in a Chaingraph response, largest
\* options.concurrency, runs in a behaviour.
MaxChain == 2
MaxOutputs == 2
MaxConcurrency == 2
MaxRuns == 2

\* LoadSpec: largest version number in a cache file.
MaxVersion == 2
MaxPool == 2
MaxCalls == 3
MaxSockets == 3

-----------------------------------------------------------------------------
(* The spend check: getOutputSpendingTx over a backend                     *)
(*   bk.tx[id]       = [vout |-> <<scriptPubKey, ...>>, vin |-> {<<txid, n>>}] *)
(*   bk.history[sh]  = <<tx_hash, ...>>                                    *)
(* failAt = k makes the k-th backend call of the check reject (0: none).   *)

\* sha256 of the script, byte-reversed: a key derived from the script.
calculateScripthash(scriptPubKeyHex) == <<"sha256-reversed", scriptPubKeyHex>>

\* history.findIndex(h => h.tx_hash === txid), 1-based; 0 stands for -1.
RECURSIVE findIndexFrom(_, _, _)
findIndexFrom(history, txid, i) ==
  IF i > Len(history) THEN 0
  ELSE IF history[i] = txid THEN i
  ELSE findIndexFrom(history, txid, i + 1)

findIndex(history, txid) == findIndexFrom(history, txid, 1)

\* Mutant of SpendOut: the catch block rethrows instead of returning null.
SpendOutRethrow(result, caught, fetched) ==
  [result |-> result, caught |-> caught, threw |-> caught, fetched |-> fetched]

\* What a spend check hands back: the value, whether it left by the catch
\* block, whether it rejected, and the transactions it fetched, in order.
SpendOut(result, caught, fetched) ==
  [result |-> result, caught |-> caught, threw |-> FALSE, fetched |-> fetched]

\* for (let i = ourTxIndex + 1; i < history.length; i++) { ... }
RECURSIVE scanHistory(_, _, _, _, _, _, _, _)
scanHistory(bk, history, i, txid, vout, failAt, callNo, fetched) ==
  IF i > Len(history) THEN SpendOut(null, FALSE, fetched)
  ELSE IF failAt = callNo \/ history[i] \notin DOMAIN bk.tx
       THEN SpendOut(null, TRUE, fetched)
  ELSE IF <<txid, vout>> \in bk.tx[history[i]].vin
       THEN SpendOut(history[i], FALSE, Append(fetched, history[i]))
  ELSE scanHistory(bk, history, i + 1, txid, vout, failAt, callNo + 1,
                   Append(fetched, history[i]))

\* Mutant of getOutputSpendingTx: the scan starts at the head of the
\* history instead of after the queried transaction.
getOutputSpendingTxScanAll(bk, txid, vout, failAt) ==
  IF failAt = 1 \/ txid \notin DOMAIN bk.tx
  THEN SpendOut(null, TRUE, <<>>)
  ELSE LET tx == bk.tx[txid] IN
    IF vout + 1 > Len(tx.vout)
    THEN SpendOut(null, TRUE, <<txid>>)
    ELSE LET scripthash == calculateScripthash(tx.vout[vout + 1]) IN
      IF failAt = 2 \/ scripthash \notin DOMAIN bk.history
      THEN SpendOut(null, TRUE, <<txid>>)
      ELSE LET history == bk.history[scripthash]
               ourTxIndex == findIndex(history, txid)
           IN IF ourTxIndex = 0
              THEN SpendOut(null, FALSE, <<txid>>)
              ELSE scanHistory(bk, history, 1, txid, vout, failAt, 3, <<txid>>)

getOutputSpendingTx(bk, txid, vout, failAt) ==
  IF failAt = 1 \/ txid \notin DOMAIN bk.tx
  THEN SpendOut(null, TRUE, <<>>)
  ELSE LET tx == bk.tx[txid] IN
    IF vout + 1 > Len(tx.vout)
    THEN SpendOut(null, TRUE, <<txid>>)
    ELSE LET scripthash == calculateScripthash(tx.vout[vout + 1]) IN
      IF failAt = 2 \/ scripthash \notin DOMAIN bk.history
      THEN SpendOut(null, TRUE, <<txid>>)
      ELSE LET history == bk.history[scripthash]
               ourTxIndex == findIndex(history, txid)
           IN IF ourTxIndex = 0
              THEN SpendOut(null, FALSE, <<txid>>)
              ELSE scanHistory(bk, history, ourTxIndex + 1, txid, vout,
                               failAt, 3, <<txid>>)

-----------------------------------------------------------------------------
(* Cache entries and resolution results                                    *)

\* interface AuthchainCacheEntry
Entry(authbase, authhead, chainLength, isActive, lastCheckedTimestamp) ==
  [authbase |-> authbase, authhead |-> authhead, chainLength |-> chainLength,
   isActive |-> isActive, lastCheckedTimestamp |-> lastCheckedTimestamp]

\* interface AuthchainResolutionResult
Result(entry, queriesUsed, cacheHitType) ==
  [entry |-> entry, queriesUsed |-> queriesUsed, cacheHitType |-> cacheHitType]

\* createEmptyCache(): entries is a function from authbase to entry.
createEmptyCache == [version |-> 1, entries |-> <<>>]

\* The cache file: <<>> when it does not exist, else <<text>> with
\*   complete   the text is a whole JSON document (JSON.parse succeeds)
\*   kind       "object" or "null": what the document is
\*   version    [type, value]: type "number", "string" or "missing"
\*   entries    [type, value]: type "object", "string" or "missing"; value
\*              maps keys to what is stored under them
FileText(complete, kind, vtype, version, etype, entries) ==
  [complete |-> complete, kind |-> kind,
   version |-> [type |-> vtype, value |-> version],
   entries |-> [type |-> etype, value |-> entries]]

\* JSON.stringify(cache, null, 2)
stringify(cache) ==
  FileText(TRUE, "object", "number", cache.version, "object", cache.entries)

\* loadAuthchainCache: readFileSync fails on a missing file, JSON.parse on
\* text that is no document, cache.version on null; all three are caught.
\* Then !cache.version || typeof cache.version !== 'number', !cache.entries
\* || typeof cache.entries !== 'object', and cache.version !== 1.
loadAuthchainCache(file) ==
  IF file = <<>> THEN createEmptyCache
  ELSE IF ~file[1].complete THEN createEmptyCache
  ELSE IF file[1].kind = "null" THEN createEmptyCache
  ELSE IF file[1].version.type # "number" \/ file[1].version.value = 0
  THEN createEmptyCache
  ELSE IF file[1].entries.type # "object" THEN createEmptyCache
  ELSE IF file[1].version.value # 1 THEN createEmptyCache
  ELSE [version |-> file[1].version.value, entries |-> file[1].entries.value]

\* What writeFileSync leaves behind when it fails after opening the file
\* for writing: the file is cut short.
truncated == FileText(FALSE, "object", "missing", 0, "missing", <<>>)

\* The ways saveAuthchainCache can go: "none" (it succeeds), "mkdir"
\* (mkdirSync or the open fails, nothing is written), "write"
\* (writeFileSync fails part-way).
SaveFaults == {"none", "mkdir", "write"}

\* saveAuthchainCache(cache, cachePath): the file afterwards and whether
\* the error was rethrown.
saveAuthchainCache(cache, file, fault) ==
  IF fault = "none" THEN [file |-> <<stringify(cache)>>, threw |-> FALSE]
  ELSE IF fault = "mkdir" THEN [file |-> file, threw |-> TRUE]
  ELSE [file |-> <<truncated>>, threw |-> TRUE]

\* cache?.entries[authbaseTxid]; an absent value is the empty sequence, a
\* present one the one-element sequence.  oldCache is <<>> when undefined.
cachedEntryOf(oldCache, authbaseTxid) ==
  IF oldCache = <<>> THEN <<>>
  ELSE IF authbaseTxid \in DOMAIN oldCache[1].entries
       THEN <<oldCache[1].entries[authbaseTxid]>>
       ELSE <<>>

\* Mutant of storeEntry: where the old cache had an entry, that entry is
\* stored again.
storeEntryCached(newCache, res) ==
  [newCache EXCEPT !.entries =
     (res.authbaseTxid :> (IF res.cachedEntry # <<>> THEN res.cachedEntry[1]
                           ELSE res.result[1].entry)) @@ newCache.entries]

\* newCache.entries[result.tokenId] = authchainResult.entry (bcmr.ts 563)
storeEntry(newCache, res) ==
  [newCache EXCEPT !.entries =
     (res.authbaseTxid :> res.result[1].entry) @@ newCache.entries]

-----------------------------------------------------------------------------
(* resolveAuthchain, cut at its awaits.  A resolution is a record          *)
(*   pc           "idle", "probe" (awaiting the probe of the cached        *)
(*                authhead), "resume" / "miss" (at the head of the         *)
(*                while loop), "done" (returned), "thrown" (rejected)      *)
(*   authbaseTxid, cachedEntry, currentTxid, chainLength, queriesUsed      *)
(*   result       <<>> or <<AuthchainResolutionResult>>                    *)
(* and, for the properties only:                                           *)
(*   issued       number of spend checks issued                            *)
(*   queried      set of transactions whose output 0 was checked           *)
(*   faulted      a backend call failed during one of the checks           *)
(*   faultedAt    the transaction the failed check was about               *)
(*   lastResult   what the last spend check returned                       *)
(*   atBound      the walk left its loop because the bound was reached     *)

IdleResolution ==
  [pc |-> "idle", authbaseTxid |-> null, cachedEntry |-> <<>>,
   currentTxid |-> null, chainLength |-> 0, queriesUsed |-> 0,
   result |-> <<>>, issued |-> 0, queried |-> {}, faulted |-> FALSE,
   faultedAt |-> null, lastResult |-> null, atBound |-> FALSE]

Returned(rs, result) == [rs EXCEPT !.pc = "done", !.result = <<result>>]

\* Mutant of resolveEnter: an inactive cached entry is probed like an
\* active one.
resolveEnterProbeAll(authbaseTxid, cachedEntry) ==
  LET rs == [IdleResolution EXCEPT !.authbaseTxid = authbaseTxid,
                                   !.cachedEntry = cachedEntry]
  IN IF cachedEntry # <<>>
     THEN [rs EXCEPT !.pc = "probe"]
     ELSE [rs EXCEPT !.pc = "miss", !.currentTxid = authbaseTxid,
                     !.chainLength = 1, !.queriesUsed = 0]

\* Mutant of resolveEnter: the cached entry is not used; every resolution
\* walks from the authbase.
resolveEnterCold(authbaseTxid, cachedEntry) ==
  [IdleResolution EXCEPT !.authbaseTxid = authbaseTxid,
                         !.cachedEntry = cachedEntry,
                         !.pc = "miss", !.currentTxid = authbaseTxid,
                         !.chainLength = 1, !.queriesUsed = 0]

\* Lines 243-255 and 329-332: up to the first await.
resolveEnter(authbaseTxid, cachedEntry) ==
  LET rs == [IdleResolution EXCEPT !.authbaseTxid = authbaseTxid,
                                   !.cachedEntry = cachedEntry]
  IN IF cachedEntry # <<>> /\ ~cachedEntry[1].isActive
     THEN Returned(rs, Result(cachedEntry[1], 0, "perfect"))
     ELSE IF cachedEntry # <<>> /\ cachedEntry[1].isActive
     THEN [rs EXCEPT !.pc = "probe"]
     ELSE [rs EXCEPT !.pc = "miss", !.currentTxid = authbaseTxid,
                     !.chainLength = 1, !.queriesUsed = 0]

\* Mutant of afterProbe: the good hit rebuilds the entry and takes the
\* authbase for the authhead.
afterProbeRebuild(rs, out, now) ==
  IF out.threw THEN [rs EXCEPT !.pc = "thrown"]
  ELSE IF out.result = null
  THEN Returned(rs, Result(Entry(rs.authbaseTxid, rs.authbaseTxid,
                  rs.cachedEntry[1].chainLength, TRUE, now), 1, "good"))
  ELSE [rs EXCEPT !.pc = "resume", !.currentTxid = out.result,
                  !.chainLength = rs.cachedEntry[1].chainLength + 1,
                  !.queriesUsed = 1]

\* Mutant of afterProbe: the resumed walk does not count the hop from the
\* cached authhead to its spender.
afterProbeSameLength(rs, out, now) ==
  IF out.threw THEN [rs EXCEPT !.pc = "thrown"]
  ELSE IF out.result = null
  THEN Returned(rs, Result([rs.cachedEntry[1] EXCEPT
                               !.lastCheckedTimestamp = now], 1, "good"))
  ELSE [rs EXCEPT !.pc = "resume", !.currentTxid = out.result,
                  !.chainLength = rs.cachedEntry[1].chainLength,
                  !.queriesUsed = 1]

\* Mutant of afterProbe: the good hit writes the new timestamp into the
\* cached entry and returns that object.
afterProbeInPlace(rs, out, now) ==
  IF out.threw THEN [rs EXCEPT !.pc = "thrown"]
  ELSE IF out.result = null
  THEN Returned([rs EXCEPT !.cachedEntry[1].lastCheckedTimestamp = now],
                Result([rs.cachedEntry[1] EXCEPT
                          !.lastCheckedTimestamp = now], 1, "good"))
  ELSE [rs EXCEPT !.pc = "resume", !.currentTxid = out.result,
                  !.chainLength = rs.cachedEntry[1].chainLength + 1,
                  !.queriesUsed = 1]

\* Lines 256-274: the probe of the cached authhead has settled.
afterProbe(rs, out, now) ==
  IF out.threw THEN [rs EXCEPT !.pc = "thrown"]
  ELSE IF out.result = null
  THEN Returned(rs, Result([rs.cachedEntry[1] EXCEPT
                               !.lastCheckedTimestamp = now], 1, "good"))
  ELSE [rs EXCEPT !.pc = "resume", !.currentTxid = out.result,
                  !.chainLength = rs.cachedEntry[1].chainLength + 1,
                  !.queriesUsed = 1]

\* Mutant of resumeStep: a hop of the resumed walk is not counted in the
\* chain length.
resumeStepNoIncrement(rs, out, now) ==
  IF out.threw
  THEN Returned(rs, Result(Entry(rs.authbaseTxid, rs.currentTxid,
                  rs.chainLength, FALSE, now), rs.queriesUsed, "partial"))
  ELSE IF out.result = null
  THEN Returned(rs, Result(Entry(rs.authbaseTxid, rs.currentTxid,
                  rs.chainLength, TRUE, now), rs.queriesUsed + 1, "partial"))
  ELSE [rs EXCEPT !.currentTxid = out.result,
                  !.queriesUsed = rs.queriesUsed + 1]

\* Mutant of resumeStep: the walk counts the hop but stays at the
\* transaction it has checked.
resumeStepStay(rs, out, now) ==
  IF out.threw
  THEN Returned(rs, Result(Entry(rs.authbaseTxid, rs.currentTxid,
                  rs.chainLength, FALSE, now), rs.queriesUsed, "partial"))
  ELSE IF out.result = null
  THEN Returned(rs, Result(Entry(rs.authbaseTxid, rs.currentTxid,
                  rs.chainLength, TRUE, now), rs.queriesUsed + 1, "partial"))
  ELSE [rs EXCEPT !.chainLength = rs.chainLength + 1,
                  !.queriesUsed = rs.queriesUsed + 1]

\* Lines 278-297 and 312-324: one pass of the resume loop.
resumeStep(rs, out, now) ==
  IF out.threw
  THEN Returned(rs, Result(Entry(rs.authbaseTxid, rs.currentTxid,
                  rs.chainLength, FALSE, now), rs.queriesUsed, "partial"))
  ELSE IF out.result = null
  THEN Returned(rs, Result(Entry(rs.authbaseTxid, rs.currentTxid,
                  rs.chainLength, TRUE, now), rs.queriesUsed + 1, "partial"))
  ELSE [rs EXCEPT !.currentTxid = out.result,
                  !.chainLength = rs.chainLength + 1,
                  !.queriesUsed = rs.queriesUsed + 1]

\* Lines 300-311: the resume loop ended on its condition.
resumeBound(rs, now) ==
  Returned(rs, Result(Entry(rs.authbaseTxid, rs.currentTxid, rs.chainLength,
                            FALSE, now), rs.queriesUsed, "partial"))

\* Mutant of missStep: the chain length does not grow with a hop, so that
\* the loop never reaches its bound.
missStepNoAdvance(rs, out, now) ==
  IF out.threw
  THEN Returned(rs, Result(Entry(rs.authbaseTxid, rs.currentTxid,
                  rs.chainLength, FALSE, now), rs.queriesUsed, "miss"))
  ELSE IF out.result = null
  THEN Returned(rs, Result(Entry(rs.authbaseTxid, rs.currentTxid,
                  rs.chainLength, TRUE, now), rs.queriesUsed + 1, "miss"))
  ELSE [rs EXCEPT !.currentTxid = out.result,
                  !.queriesUsed = rs.queriesUsed + 1]

\* Mutant of missStep: the check that finds the authhead is not counted.
missStepNoCount(rs, out, now) ==
  IF out.threw
  THEN Returned(rs, Result(Entry(rs.authbaseTxid, rs.currentTxid,
                  rs.chainLength, FALSE, now), rs.queriesUsed, "miss"))
  ELSE IF out.result = null
  THEN Returned(rs, Result(Entry(rs.authbaseTxid, rs.currentTxid,
                  rs.chainLength, TRUE, now), rs.queriesUsed, "miss"))
  ELSE [rs EXCEPT !.currentTxid = out.result,
                  !.chainLength = rs.chainLength + 1,
                  !.queriesUsed = rs.queriesUsed + 1]

\* Mutant of missStep: a spend check that failed makes the entry inactive.
missStepFailClosed(rs, out, now) ==
  IF out.threw \/ out.caught
  THEN Returned(rs, Result(Entry(rs.authbaseTxid, rs.currentTxid,
                  rs.chainLength, FALSE, now), rs.queriesUsed, "miss"))
  ELSE IF out.result = null
  THEN Returned(rs, Result(Entry(rs.authbaseTxid, rs.currentTxid,
                  rs.chainLength, TRUE, now), rs.queriesUsed + 1, "miss"))
  ELSE [rs EXCEPT !.currentTxid = out.result,
                  !.chainLength = rs.chainLength + 1,
                  !.queriesUsed = rs.queriesUsed + 1]

\* Lines 336-356 and 374-386: one pass of the miss loop.
missStep(rs, out, now) ==
  IF out.threw
  THEN Returned(rs, Result(Entry(rs.authbaseTxid, rs.currentTxid,
                  rs.chainLength, FALSE, now), rs.queriesUsed, "miss"))
  ELSE IF out.result = null
  THEN Returned(rs, Result(Entry(rs.authbaseTxid, rs.currentTxid,
                  rs.chainLength, TRUE, now), rs.queriesUsed + 1, "miss"))
  ELSE [rs EXCEPT !.currentTxid = out.result,
                  !.chainLength = rs.chainLength + 1,
                  !.queriesUsed = rs.queriesUsed + 1]

\* Lines 359-373: the miss loop ended on its condition.
missBound(rs, now) ==
  Returned(rs, Result(Entry(rs.authbaseTxid, rs.currentTxid, rs.chainLength,
                            FALSE, now), rs.queriesUsed, "miss"))

\* while (chainLength < maxChainLength)
loopContinues(rs) == rs.chainLength < maxChainLength

\* The transaction whose output 0 the pending spend check is about.
checkTarget(rs) ==
  IF rs.pc = "probe" THEN rs.cachedEntry[1].authhead ELSE rs.currentTxid

\* Bookkeeping of a spend check, for the properties.
Noted(rs, target, out) ==
  [rs EXCEPT !.issued = @ + 1, !.queried = @ \cup {target},
             !.faulted = @ \/ out.caught,
             !.faultedAt = IF out.caught THEN target ELSE @,
             !.lastResult = out.result]

-----------------------------------------------------------------------------
(* The ledger, as seen from one authbase: transactions 1 .. len, each      *)
(* spending output 0 of the one before; output 0 of the last one is        *)
(* unspent (loop = null) or, in malformed data, spent by transaction loop. *)

spentBy(l, t) == IF t < l.len THEN t + 1 ELSE l.loop

\* The part of the backend that a spend check of t's output 0 reads: t and
\* its spender, and the history of the script of t's output 0.
LedgerBackend(l, t) ==
  LET s == spentBy(l, t)
      ids == {t, s} \ {null}
  IN [tx |-> [id \in ids |->
                [vout |-> <<id>>,
                 vin |-> IF id = s THEN {<<t, 0>>} ELSE {}]],
      history |-> [sh \in {calculateScripthash(t)} |->
                     IF s = null THEN <<t>> ELSE <<t, s>>]]

-----------------------------------------------------------------------------
(* getBCMRRegistries: its data and its synchronous parts.                  *)
(* A BCMROutput of the Chaingraph response is a record                     *)
(*   transaction_hash  [prefix, hex]: "\\x" or "" and the transaction id   *)
(*   output_index      0, 1, ...                                           *)
(*   locking_bytecode  "bcmr+uri", "bcmr" (no URI pushed) or "other"       *)
(*   transaction       [present, block_inclusions]: whether the response   *)
(*                     carries the field, and the heights of the blocks    *)

BCMROutput(prefix, hex, output_index, locking_bytecode, present, heights) ==
  [transaction_hash |-> [prefix |-> prefix, hex |-> hex],
   output_index |-> output_index, locking_bytecode |-> locking_bytecode,
   transaction |-> [present |-> present, block_inclusions |-> heights]]

\* stripHexPrefix: what follows the prefix.
stripHexPrefix(hex) == hex.hex

\* parseBCMRBytecode: <<>> for null, else <<ParsedBCMR>>.
parseBCMRBytecode(hex) ==
  IF hex = "other" THEN <<>>
  ELSE <<[hash |-> "hash",
          uris |-> IF hex = "bcmr+uri" THEN <<"uri">> ELSE <<>>]>>

\* txMap.get(txHash): the position of the key in the map (a Map keeps its
\* keys in insertion order), 0 when the key is absent.
RECURSIVE txMapGet(_, _, _)
txMapGet(txMap, txHash, i) ==
  IF i > Len(txMap) THEN 0
  ELSE IF stripHexPrefix(txMap[i].transaction_hash) = txHash THEN i
  ELSE txMapGet(txMap, txHash, i + 1)

\* Mutant of filterFrom: the output seen first for a transaction is kept.
RECURSIVE filterFromFirstSeen(_, _, _)
filterFromFirstSeen(outputs, i, txMap) ==
  IF i > Len(outputs) THEN txMap
  ELSE LET output == outputs[i]
           k == txMapGet(txMap, stripHexPrefix(output.transaction_hash), 1)
       IN filterFromFirstSeen(outputs, i + 1,
            IF k = 0 THEN Append(txMap, output) ELSE txMap)

\* The for loop of filterFirstOutputOnly, from output i on.
RECURSIVE filterFrom(_, _, _)
filterFrom(outputs, i, txMap) ==
  IF i > Len(outputs) THEN txMap
  ELSE LET output == outputs[i]
           k == txMapGet(txMap, stripHexPrefix(output.transaction_hash), 1)
       IN filterFrom(outputs, i + 1,
            IF k = 0 THEN Append(txMap, output)
            ELSE IF output.output_index < txMap[k].output_index
                 THEN [txMap EXCEPT ![k] = output]
                 ELSE txMap)

filterFirstOutputOnly(outputs) == filterFrom(outputs, 1, <<>>)

isOutputBurned(output) == output.output_index = 0

\* block_inclusions[0]?.block.height ? parseInt(...) : 0
blockHeightOf(output) ==
  IF output.transaction.block_inclusions = <<>> THEN 0
  ELSE output.transaction.block_inclusions[1]

\* The object processOutput returns, without its _authchainResult field.
Registry(output, parsed, authchainResult) ==
  [authbase |-> stripHexPrefix(output.transaction_hash),
   authhead |-> authchainResult.entry.authhead,
   tokenId |-> stripHexPrefix(output.transaction_hash),
   blockHeight |-> blockHeightOf(output),
   hash |-> parsed.hash,
   uris |-> parsed.uris,
   isBurned |-> isOutputBurned(output),
   isValid |-> Len(parsed.uris) > 0,
   authchainLength |-> authchainResult.entry.chainLength,
   isAuthheadUnspent |-> authchainResult.entry.isActive]

\* registries.sort((a, b) => b.blockHeight - a.blockHeight): a stable sort,
\* as an insertion sort.
RECURSIVE insertByHeight(_, _, _)
insertByHeight(sorted, reg, i) ==
  IF i > Len(sorted) THEN Append(sorted, reg)
  ELSE IF sorted[i].blockHeight < reg.blockHeight
       THEN SubSeq(sorted, 1, i - 1) \o <<reg>> \o SubSeq(sorted, i, Len(sorted))
       ELSE insertByHeight(sorted, reg, i + 1)

RECURSIVE sortFrom(_, _, _)
sortFrom(registries, i, sorted) ==
  IF i > Len(registries) THEN sorted
  ELSE sortFrom(registries, i + 1, insertByHeight(sorted, registries[i], 1))

sortByBlockHeight(registries) == sortFrom(registries, 1, <<>>)

\* One call of processOutput, a member of a batch:
\*   st      "awaiting" (resolveAuthchain is pending), "fulfilled" or
\*           "rejected"
\*   rs      its resolution
\*   value   <<>> for null, else <<BCMRRegistry>>
Slot(output, st, rs, value) ==
  [output |-> output, st |-> st, rs |-> rs, value |-> value]

\* processOutput once resolveAuthchain has moved (bcmr.ts 505-527): it
\* waits on while the resolution is pending; reading the block height of
\* an output without its transaction field throws.
processOutputResume(output, rs) ==
  IF rs.pc = "thrown" THEN Slot(output, "rejected", rs, <<>>)
  ELSE IF rs.pc # "done" THEN Slot(output, "awaiting", rs, <<>>)
  ELSE IF ~output.transaction.present THEN Slot(output, "rejected", rs, <<>>)
  ELSE Slot(output, "fulfilled", rs,
            <<Registry(output, parseBCMRBytecode(output.locking_bytecode)[1],
                       rs.result[1])>>)

\* Mutant of processOutputEnter: the resolver is given the first entry of
\* the old cache, whichever candidate it belongs to.
processOutputEnterAnyEntry(output, oldCache) ==
  IF parseBCMRBytecode(output.locking_bytecode) = <<>>
  THEN Slot(output, "fulfilled", IdleResolution, <<>>)
  ELSE processOutputResume(output,
         resolveEnter(stripHexPrefix(output.transaction_hash),
                      IF oldCache = <<>> \/ DOMAIN oldCache[1].entries = {}
                      THEN <<>>
                      ELSE <<oldCache[1].entries[
                               CHOOSE a \in DOMAIN oldCache[1].entries :
                                 \A b \in DOMAIN oldCache[1].entries : a <= b]>>))

\* processOutput up to its await (bcmr.ts 494-505).
processOutputEnter(output, oldCache) ==
  IF parseBCMRBytecode(output.locking_bytecode) = <<>>
  THEN Slot(output, "fulfilled", IdleResolution, <<>>)
  ELSE processOutputResume(output,
         resolveEnter(stripHexPrefix(output.transaction_hash),
                      cachedEntryOf(oldCache,
                                    stripHexPrefix(output.transaction_hash))))

\* validOutputs.slice(i): a batch that takes all that is left
batchSliceRest(validOutputs, i, concurrency) ==
  SubSeq(validOutputs, i + 1, Len(validOutputs))

\* batch = validOutputs.slice(i, i + concurrency)
batchSlice(validOutputs, i, concurrency) ==
  SubSeq(validOutputs, i + 1,
         IF i + concurrency < Len(validOutputs) THEN i + concurrency
         ELSE Len(validOutputs))

\* const concurrency = options?.concurrency || 50
defaultConcurrency == 50
concurrencyOf(option) == IF option = 0 THEN defaultConcurrency ELSE option

\* A call of getBCMRRegistries:
\*   pc   "idle", "fetch" (awaiting Chaingraph), "loop" (at the head of the
\*        batch loop), "batch" (awaiting Promise.all), "returned", "thrown"
\*   no   the number of the call, which is also what Date.now() returns
\*        during it
\*   backend   "up"; "nourl" (FULCRUM_WS_URL is not set, the constructor
\*        of the pool throws); "unreachable" (no connection can be opened)
\*   globalPool   "none" (null), "initializing" (created, initialize()
\*        pending), "failed" (the pool could not be set up)
\*   owner   the member of the batch whose call created the pool, while
\*        initialize() is pending
\*   startFile   the cache file as it was when the call began (for the
\*        properties)
\*   started   for each member of validOutputs, how many times
\*        resolveAuthchain was called for it (for the properties)
\*   faulted   whether a spend check of this call failed (for the
\*        properties)
\*   prev   what the call before this one left behind when it returned
\*        and saved its cache, else <<>> (for the properties)
\*   response   <<outputs>> of the Chaingraph response from the filtering
\*        to the start of the first batch, else <<>> (for the properties)
IdleRun ==
  [pc |-> "idle", no |-> 0, concurrency |-> 0, oldCache |-> <<>>,
   validOutputs |-> <<>>, newCache |-> createEmptyCache, registries |-> <<>>,
   i |-> 0, slots |-> <<>>, totalFulcrumQueries |-> 0, processedCount |-> 0,
   backend |-> "up", globalPool |-> "none", owner |-> 0,
   startFile |-> <<>>, started |-> <<>>, faulted |-> FALSE, prev |-> <<>>,
   response |-> <<>>]

\* getConnectionPool as the members of a new batch make their first calls,
\* one after the other: against an unreachable backend the first caller
\* creates the pool and awaits initialize(); the others find globalPool
\* set and queue their requests in it.
poolOwner(rn, slots) ==
  IF rn.backend = "unreachable" /\ rn.globalPool = "none"
     /\ \E k \in DOMAIN slots : slots[k].st = "awaiting"
  THEN [rn EXCEPT !.globalPool = "initializing",
                  !.owner = CHOOSE k \in DOMAIN slots :
                              /\ slots[k].st = "awaiting"
                              /\ \A j \in 1 .. k - 1 : slots[j].st # "awaiting"]
  ELSE rn

\* The for loop over results in processBatch (bcmr.ts 539-586), from
\* result k on.
RECURSIVE collectFrom(_, _)
collectFrom(rn, k) ==
  IF k > Len(rn.slots) THEN rn
  ELSE IF rn.slots[k].value = <<>>
  THEN collectFrom([rn EXCEPT !.processedCount = @ + 1], k + 1)
  ELSE collectFrom(
         [rn EXCEPT
            !.totalFulcrumQueries = @ + rn.slots[k].rs.result[1].queriesUsed,
            !.newCache = storeEntry(@, rn.slots[k].rs),
            !.registries = Append(@, rn.slots[k].value[1]),
            !.processedCount = @ + 1],
         k + 1)

-----------------------------------------------------------------------------
(* FulcrumConnectionPool.  Sockets are numbered in the order they are      *)
(* created; readyState[ws] is the state of socket ws and wire[ws] the      *)
(* requests the backend received on it and has not answered.  Request ids  *)
(* are 1, 2, ...; promise[id] is the promise call() returned for id.       *)
(* sentOn, order, settled, sendFailed and garbled record what happened and *)
(* are read by no handler: the socket a request was sent on, the ids in    *)
(* the order they were sent, each settlement of a promise, the requests    *)
(* whose ws.send() threw, and the requests that were in flight on a socket *)
(* when a message arrived on it that the handler could not use.  In the    *)
(* runs of BacklogSpec caller[id] is the member of the batch whose spend   *)
(* check made request id.                                                  *)

\* new FulcrumConnectionPool(poolSize)
NewPool(poolSize) ==
  [poolSize |-> poolSize, initialized |-> FALSE,
   connections |-> <<>>, availableConnections |-> <<>>,
   pendingRequests |-> {}, requestQueue |-> <<>>,
   nextRequestId |-> 1, isClosing |-> FALSE,
   readyState |-> <<>>, wire |-> <<>>, promise |-> <<>>,
   sentOn |-> <<>>, order |-> <<>>, settled |-> <<>>, sendFailed |-> {},
   garbled |-> {}, caller |-> <<>>]

includes(seq, x) == \E i \in DOMAIN seq : seq[i] = x

indexOf(seq, x) ==
  IF includes(seq, x)
  THEN CHOOSE i \in DOMAIN seq :
         seq[i] = x /\ \A j \in DOMAIN seq : seq[j] = x => i <= j
  ELSE 0

\* const i = seq.indexOf(x); if (i !== -1) seq.splice(i, 1)
spliceOut(seq, x) ==
  IF includes(seq, x)
  THEN SubSeq(seq, 1, indexOf(seq, x) - 1)
         \o SubSeq(seq, indexOf(seq, x) + 1, Len(seq))
  ELSE seq

\* new WebSocket(wsUrl) inside createConnection
createConnection(p) ==
  [p EXCEPT !.readyState = Append(@, "connecting"), !.wire = Append(@, <<>>)]

RECURSIVE createConnections(_, _)
createConnections(p, n) ==
  IF n = 0 THEN p ELSE createConnections(createConnection(p), n - 1)

initialize(p) ==
  createConnections([p EXCEPT !.initialized = TRUE], p.poolSize)

\* request.reject(...) or pending.resolve(...)/pending.reject(...): a promise
\* keeps its first settlement
settle(p, id, outcome, cause) ==
  [p EXCEPT !.promise[id] = IF @ = "pending" THEN outcome ELSE @,
            !.settled[id] = Append(@, cause)]

\* processQueue() taking the newest request of the queue (pop) where the
\* code takes the oldest (shift)
RECURSIVE processQueuePop(_, _)
processQueuePop(p, throws) ==
  IF p.requestQueue = <<>> \/ p.availableConnections = <<>> THEN p
  ELSE
    LET request == p.requestQueue[Len(p.requestQueue)]
        ws == Head(p.availableConnections)
        q == [p EXCEPT !.requestQueue = SubSeq(@, 1, Len(@) - 1),
                       !.availableConnections = Tail(@),
                       !.pendingRequests = @ \cup {request}]
        sent == [q EXCEPT !.sentOn[request] = ws,
                          !.order = Append(@, request)]
    IN IF p.readyState[ws] = "open"
       THEN processQueuePop([sent EXCEPT !.wire[ws] = Append(@, request)],
                            throws)
       ELSE IF throws
       THEN processQueuePop(
              [settle(q, request, "rejected",
                      [by |-> "send", id |-> request, error |-> TRUE])
                 EXCEPT !.pendingRequests = @ \ {request},
                        !.availableConnections = Append(@, ws),
                        !.sendFailed = @ \cup {request}],
              throws)
       ELSE processQueuePop(sent, throws)

\* processQueue().  ws.send() hands the request to the backend when the
\* socket is open; on a socket that is closing it throws when throws is
\* TRUE and drops the message otherwise.
RECURSIVE processQueue(_, _)
processQueue(p, throws) ==
  IF p.requestQueue = <<>> \/ p.availableConnections = <<>> THEN p
  ELSE
    LET request == Head(p.requestQueue)
        ws == Head(p.availableConnections)
        q == [p EXCEPT !.requestQueue = Tail(@),
                       !.availableConnections = Tail(@),
                       !.pendingRequests = @ \cup {request}]
        sent == [q EXCEPT !.sentOn[request] = ws,
                          !.order = Append(@, request)]
    IN IF p.readyState[ws] = "open"
       THEN processQueue([sent EXCEPT !.wire[ws] = Append(@, request)], throws)
       ELSE IF throws
       THEN processQueue(
              [settle(q, request, "rejected",
                      [by |-> "send", id |-> request, error |-> TRUE])
                 EXCEPT !.pendingRequests = @ \ {request},
                        !.availableConnections = Append(@, ws),
                        !.sendFailed = @ \cup {request}],
              throws)
       ELSE processQueue(sent, throws)

\* call(method, params)
call(p, throws) ==
  processQueue(
    [p EXCEPT !.nextRequestId = @ + 1,
              !.promise = Append(@, "pending"),
              !.sentOn = Append(@, 0),
              !.settled = Append(@, <<>>),
              !.requestQueue = Append(@, p.nextRequestId)],
    throws)

MessageKinds == {"result", "error", "unparseable", "unknownId"}

\* what the backend puts on the wire for request id
Message(kind, id) ==
  [parses |-> kind # "unparseable",
   id |-> IF kind \in {"result", "error"} THEN id ELSE 0,
   error |-> kind = "error"]

\* a message the handler does nothing with: JSON.parse throws and the catch
\* logs it, or no pending request has its id
unusable(p, ws) ==
  [p EXCEPT !.garbled =
     @ \cup {id \in p.pendingRequests : p.sentOn[id] = ws}]

\* the message handler without its pendingRequests.delete(): an answered
\* request stays in the pending map
onMessageKeepPending(p, ws, response, throws) ==
  IF ~response.parses THEN unusable(p, ws)
  ELSE IF response.id \in p.pendingRequests /\ p.promise[response.id] = "pending"
  THEN LET settledP ==
             settle(p, response.id,
                    IF response.error THEN "rejected" ELSE "resolved",
                    [by |-> "response", id |-> response.id,
                     error |-> response.error])
       IN processQueue(
            IF includes(settledP.availableConnections, ws) THEN settledP
            ELSE [settledP EXCEPT !.availableConnections = Append(@, ws)],
            throws)
  ELSE unusable(p, ws)

\* ws.on('message', ...) of setupMessageHandler
onMessage(p, ws, response, throws) ==
  IF ~response.parses THEN unusable(p, ws)
  ELSE IF response.id \in p.pendingRequests
  THEN LET settledP ==
             settle([p EXCEPT !.pendingRequests = @ \ {response.id}],
                    response.id,
                    IF response.error THEN "rejected" ELSE "resolved",
                    [by |-> "response", id |-> response.id,
                     error |-> response.error])
       IN processQueue(
            IF includes(settledP.availableConnections, ws) THEN settledP
            ELSE [settledP EXCEPT !.availableConnections = Append(@, ws)],
            throws)
  ELSE unusable(p, ws)

\* ws.on('open', ...)
onOpen(p, ws) ==
  [p EXCEPT !.readyState[ws] = "open",
            !.connections = Append(@, ws),
            !.availableConnections = Append(@, ws)]

\* the close handler without its last statement: nothing is recreated
onCloseNoRecreate(p, ws) ==
  [p EXCEPT !.readyState[ws] = "closed",
            !.wire[ws] = <<>>,
            !.availableConnections = spliceOut(@, ws),
            !.connections = spliceOut(@, ws)]

\* the close handler without its first statement: the socket stays in the
\* idle set
onCloseKeepIdle(p, ws) ==
  LET removed ==
        [p EXCEPT !.readyState[ws] = "closed",
                  !.wire[ws] = <<>>,
                  !.connections = spliceOut(@, ws)]
  IN IF ~removed.isClosing /\ Len(removed.connections) < removed.poolSize
     THEN createConnection(removed)
     ELSE removed

\* ws.on('close', ...)
onClose(p, ws) ==
  LET removed ==
        [p EXCEPT !.readyState[ws] = "closed",
                  !.wire[ws] = <<>>,
                  !.availableConnections = spliceOut(@, ws),
                  !.connections = spliceOut(@, ws)]
  IN IF ~removed.isClosing /\ Len(removed.connections) < removed.poolSize
     THEN createConnection(removed)
     ELSE removed

\* close() that rejects every caller still waiting, where the code abandons
\* them
closeRejecting(p) ==
  [p EXCEPT !.isClosing = TRUE,
            !.readyState = [ws \in DOMAIN @ |->
                              IF includes(p.connections, ws) THEN "closing"
                              ELSE @[ws]],
            !.promise = [id \in DOMAIN @ |->
                           IF @[id] = "pending" THEN "rejected" ELSE @[id]],
            !.connections = <<>>,
            !.availableConnections = <<>>,
            !.pendingRequests = {},
            !.requestQueue = <<>>]

\* ws.close() on every connection: the closing handshake starts, and what
\* the backend already sent can still arrive before the 'close' event
RECURSIVE closeAll(_, _)
closeAll(p, conns) ==
  IF conns = <<>> THEN p
  ELSE closeAll([p EXCEPT !.readyState[Head(conns)] = "closing"],
                Tail(conns))

\* close()
close(p) ==
  [closeAll([p EXCEPT !.isClosing = TRUE], p.connections)
     EXCEPT !.connections = <<>>,
            !.availableConnections = <<>>,
            !.pendingRequests = {},
            !.requestQueue = <<>>]

-----------------------------------------------------------------------------
VARIABLES
  sq,        \* SpendSpec: the spend check under test and its outcome
  ledger,    \* Spec: [len, loop], the chain that starts at the authbase
  cacheFile, \* the cache file on disk
  useCache,  \* Spec: options.useCache of the resolution in progress
  r,         \* Spec: the resolution in progress
  faults,    \* Spec: spend checks that failed so far
  cold,      \* Spec: <<>> or the entry of the last fault-free resolution
             \*       without cache on the ledger as it is now
  run,       \* RunSpec: the call of getBCMRRegistries in progress
  ld,        \* LoadSpec: a cache file and what loadAuthchainCache makes of it
  pool       \* PoolSpec: the FulcrumConnectionPool, its sockets and callers

vars == <<sq, ledger, cacheFile, useCache, r, faults, cold, run, ld, pool>>

sqVars == <<sq>>
resVars == <<ledger, cacheFile, useCache, r, faults, cold>>

-----------------------------------------------------------------------------
(* Spec: one authbase, resolved again and again while the ledger grows.    *)

\* The authbase is the first transaction of the chain.
Authbase == 1

\* Chains start fresh, or two transactions short of the hop bound.
InitLens == {1, maxChainLength - 2}

ResInit ==
  /\ ledger \in {[len |-> n, loop |-> null] : n \in InitLens}
  /\ cacheFile = <<>>
  /\ useCache = TRUE
  /\ r = IdleResolution
  /\ faults = 0
  /\ cold = <<>>

\* A new transaction spends output 0 of the tip.
Extend ==
  /\ r.pc = "idle"
  /\ ledger.loop = null
  /\ \E b \in InitLens : b <= ledger.len /\ ledger.len < b + MaxExtend
  /\ ledger' = [ledger EXCEPT !.len = @ + 1]
  /\ cold' = <<>>
  /\ UNCHANGED <<sq, ld, pool, run, cacheFile, useCache, r, faults>>

\* Malformed data: output 0 of the tip is reported spent by a transaction
\* of the chain itself.
CloseLoop ==
  /\ r.pc = "idle"
  /\ ledger.loop = null
  /\ ledger.len <= MaxLoopLen
  /\ \E j \in 1 .. ledger.len : ledger' = [ledger EXCEPT !.loop = j]
  /\ cold' = <<>>
  /\ UNCHANGED <<sq, ld, pool, run, cacheFile, useCache, r, faults>>

\* oldCache = loadAuthchainCache(cachePath) when useCache, else undefined
\* (bcmr.ts 419-422).
\* the cache is loaded whatever useCache says
oldCacheOfAlways(uc, file) == <<loadAuthchainCache(file)>>

oldCacheOf(uc, file) == IF uc THEN <<loadAuthchainCache(file)>> ELSE <<>>

\* processOutput calls resolveAuthchain(txHash, oldCache) (bcmr.ts 505).
Start ==
  /\ r.pc = "idle"
  /\ \E uc \in BOOLEAN :
       /\ useCache' = uc
       /\ r' = resolveEnter(Authbase,
                            cachedEntryOf(oldCacheOf(uc, cacheFile), Authbase))
  /\ UNCHANGED <<sq, ld, pool, run, ledger, cacheFile, faults, cold>>

\* The values Date.now() may return.
Times == 0 .. MaxClock

\* Date.now() is read only where resolveAuthchain returns: after a check
\* that found no spender or that rejected.
TimesRead(out) == IF out.result = null \/ out.threw THEN Times ELSE {0}

\* The backend calls of the pending check that may be made to fail.
FailChoicesFor(rs) ==
  IF faults < MaxFaults /\ rs.issued < MaxFaultQuery THEN 0 .. 3 ELSE {0}

FailChoices == FailChoicesFor(r)

\* await getOutputSpendingTx(target, 0) of resolution rs.
SpendCheckFor(rs, failAt) ==
  getOutputSpendingTx(LedgerBackend(ledger, checkTarget(rs)), checkTarget(rs),
                      0, failAt)

SpendCheck(failAt) == SpendCheckFor(r, failAt)

CountFault(out) == faults' = IF out.caught THEN faults + 1 ELSE faults

Probe ==
  /\ r.pc = "probe"
  /\ \E failAt \in FailChoices :
       LET out == SpendCheck(failAt) IN
       \E now \in TimesRead(out) :
         /\ r' = afterProbe(Noted(r, checkTarget(r), out), out, now)
         /\ CountFault(out)
  /\ UNCHANGED <<sq, ld, pool, run, ledger, cacheFile, useCache, cold>>

ResumeHop ==
  /\ r.pc = "resume"
  /\ loopContinues(r)
  /\ \E failAt \in FailChoices :
       LET out == SpendCheck(failAt) IN
       \E now \in TimesRead(out) :
         /\ r' = resumeStep(Noted(r, checkTarget(r), out), out, now)
         /\ CountFault(out)
  /\ UNCHANGED <<sq, ld, pool, run, ledger, cacheFile, useCache, cold>>

ResumeBound ==
  /\ r.pc = "resume"
  /\ ~loopContinues(r)
  /\ \E now \in Times : r' = resumeBound([r EXCEPT !.atBound = TRUE], now)
  /\ UNCHANGED <<sq, ld, pool, run, ledger, cacheFile, useCache, faults, cold>>

MissHop ==
  /\ r.pc = "miss"
  /\ loopContinues(r)
  /\ \E failAt \in FailChoices :
       LET out == SpendCheck(failAt) IN
       \E now \in TimesRead(out) :
         /\ r' = missStep(Noted(r, checkTarget(r), out), out, now)
         /\ CountFault(out)
  /\ UNCHANGED <<sq, ld, pool, run, ledger, cacheFile, useCache, cold>>

MissBound ==
  /\ r.pc = "miss"
  /\ ~loopContinues(r)
  /\ \E now \in Times : r' = missBound([r EXCEPT !.atBound = TRUE], now)
  /\ UNCHANGED <<sq, ld, pool, run, ledger, cacheFile, useCache, faults, cold>>

\* The run of one candidate ends: its entry goes into a cache created
\* empty (477) that is saved when useCache (609, 634).
savedCache(uc, file, res) ==
  IF uc /\ res.pc = "done"
  THEN saveAuthchainCache(storeEntry(createEmptyCache, res), file, "none").file
  ELSE file

\* authhead, chainLength and isActive of an entry.
Outcome(e) ==
  [authhead |-> e.authhead, chainLength |-> e.chainLength,
   isActive |-> e.isActive]

\* The resolution has returned; the run stores its entry and ends.
Finish ==
  /\ r.pc \in {"done", "thrown"}
  /\ cacheFile' = savedCache(useCache, cacheFile, r)
  /\ cold' = IF useCache THEN cold
             ELSE IF r.pc = "done" /\ ~r.faulted
                  THEN <<Outcome(r.result[1].entry)>> ELSE <<>>
  /\ r' = IdleResolution
  /\ UNCHANGED <<sq, ld, pool, run, ledger, useCache, faults>>

Init == ResInit /\ sq = <<>> /\ run = IdleRun /\ ld = <<>> /\ pool = <<>>

Next ==
  \/ Extend \/ CloseLoop \/ Start \/ Probe \/ ResumeHop \/ ResumeBound
  \/ MissHop \/ MissBound \/ Finish

Spec == Init /\ [][Next]_vars

-----------------------------------------------------------------------------
(* SpendSpec: one call of getOutputSpendingTx(1, vout) against any backend *)
(* of SqTx transactions paying to one script.                              *)

SqTxs == 1 .. SqTx

\* The script every output pays to.
SqScript == "script"

\* Histories: every sequence of at most MaxHist transactions.
SqHistories == UNION {[1 .. n -> SqTxs] : n \in 0 .. MaxHist}

\* Inputs of a transaction other than the queried one (which does not
\* spend its own outputs): none, the queried transaction's output 0, or
\* its output 1 together with output 0 of another transaction.
SqVins == {{}, {<<1, 0>>}, {<<1, 1>>, <<2, 0>>}}

SqInit ==
  /\ \E history \in SqHistories, vin \in [SqTxs \ {1} -> SqVins],
        nout \in 1 .. 2, vout \in 0 .. 1, failAt \in 0 .. MaxHist + 2 :
       sq = [bk |-> [tx |-> [id \in SqTxs |->
                               [vout |-> [k \in 1 .. IF id = 1 THEN nout ELSE 1
                                            |-> SqScript],
                                vin |-> IF id = 1 THEN {} ELSE vin[id]]],
                     history |-> [sh \in {calculateScripthash(SqScript)}
                                    |-> history]],
             txid |-> 1, vout |-> vout, failAt |-> failAt, out |-> <<>>]
  /\ ledger = [len |-> 1, loop |-> null]
  /\ cacheFile = <<>>
  /\ useCache = TRUE
  /\ r = IdleResolution
  /\ faults = 0
  /\ cold = <<>>
  /\ run = IdleRun
  /\ ld = <<>>
  /\ pool = <<>>

SqCheck ==
  /\ sq.out = <<>>
  /\ sq' = [sq EXCEPT !.out =
              <<getOutputSpendingTx(sq.bk, sq.txid, sq.vout, sq.failAt)>>]
  /\ UNCHANGED <<resVars, run, ld, pool>>

SqNext == SqCheck

SpendSpec == SqInit /\ [][SqNext]_vars

-----------------------------------------------------------------------------
(* RunSpec: calls of getBCMRRegistries, one after another, over the        *)
(* transactions of a chain that grows between the calls.                   *)

\* The outputs Chaingraph may report when the chain has len transactions:
\* outputs 0 and 1 of each transaction, well formed and carrying a URI,
\* and three more of transaction 1: one whose bytecode does not parse, one
\* without its transaction field, and an unconfirmed one without URI
\* whose hash is not prefixed.
OutputPool(len) ==
  {BCMROutput("\\x", t, n, "bcmr+uri", TRUE, <<t>>) : t \in 1 .. len, n \in 0 .. 1}
  \cup {BCMROutput("\\x", 1, 0, "other", TRUE, <<1>>),
        BCMROutput("\\x", 1, 0, "bcmr+uri", FALSE, <<>>),
        BCMROutput("", 1, 1, "bcmr", TRUE, <<>>)}

\* The states of the Fulcrum backend during a call.
Backends == {"up", "nourl", "unreachable"}

\* data.data?.search_output_prefix || []
Responses(len) == UNION {[1 .. n -> OutputPool(len)] : n \in 0 .. MaxOutputs}

RunInit ==
  /\ sq = <<>>
  /\ ledger = [len |-> 1, loop |-> null]
  /\ cacheFile = <<>>
  /\ useCache = TRUE
  /\ r = IdleResolution
  /\ faults = 0
  /\ cold = <<>>
  /\ run = IdleRun
  /\ ld = <<>>
  /\ pool = <<>>

\* Between two calls a new transaction spends output 0 of the tip.
RunExtend ==
  /\ run.pc = "idle"
  /\ ledger.len < MaxChain
  /\ ledger' = [ledger EXCEPT !.len = @ + 1]
  /\ UNCHANGED <<sq, ld, pool, cacheFile, useCache, r, faults, cold, run>>

\* Lines 406-446: the options, the environment, the load of the cache.
RunStart ==
  /\ run.pc = "idle"
  /\ run.no < MaxRuns
  /\ \E uc \in BOOLEAN, option \in 0 .. MaxConcurrency, url \in BOOLEAN,
        backend \in Backends :
       /\ useCache' = uc
       /\ run' = IF ~url
                 THEN [run EXCEPT !.pc = "thrown", !.no = @ + 1,
                                  !.startFile = cacheFile]
                 ELSE [run EXCEPT !.pc = "fetch", !.no = @ + 1,
                                  !.concurrency = concurrencyOf(option),
                                  !.backend = backend,
                                  !.oldCache = oldCacheOf(uc, cacheFile),
                                  !.startFile = cacheFile]
  /\ UNCHANGED <<sq, ld, pool, ledger, cacheFile, r, faults, cold>>

\* Lines 448-489: the request fails (it rejects, is not ok, or carries
\* errors), or its outputs are filtered and the new cache is created.
RunFetch ==
  /\ run.pc = "fetch"
  /\ \/ run' = [run EXCEPT !.pc = "thrown"]
     \/ \E outputs \in Responses(ledger.len) :
          run' = [run EXCEPT !.pc = "loop",
                             !.validOutputs = filterFirstOutputOnly(outputs),
                             !.newCache = createEmptyCache,
                             !.registries = <<>>, !.i = 0,
                             !.response = <<outputs>>,
                             !.started =
                               [j \in DOMAIN filterFirstOutputOnly(outputs)
                                  |-> 0]]
  /\ UNCHANGED <<sq, ld, pool, ledger, cacheFile, useCache, r, faults, cold>>

\* Lines 597-599 and 534-535: the next batch; every member runs up to its
\* first await.
RunBatchStart ==
  /\ run.pc = "loop"
  /\ run.i < Len(run.validOutputs)
  /\ LET batch == batchSlice(run.validOutputs, run.i, run.concurrency)
         slots == [k \in 1 .. Len(batch) |->
                     processOutputEnter(batch[k], run.oldCache)]
     IN run' = [poolOwner(run, slots) EXCEPT
                  !.pc = "batch", !.slots = slots, !.response = <<>>,
                  !.started = [j \in DOMAIN @ |->
                                 IF /\ j - run.i \in DOMAIN slots
                                    /\ slots[j - run.i].rs.pc # "idle"
                                 THEN @[j] + 1 ELSE @[j]]]
  /\ UNCHANGED <<sq, ld, pool, ledger, cacheFile, useCache, r, faults, cold>>

\* The resolution rs moves past its pending await: the bound of the loop,
\* or a spend check and what follows it.
resolutionStep(rs, failAt, now) ==
  LET out == SpendCheckFor(rs, failAt)
      noted == Noted(rs, checkTarget(rs), out)
  IN IF rs.pc = "probe"
     THEN [rs |-> afterProbe(noted, out, now), caught |-> out.caught]
     ELSE IF ~loopContinues(rs)
     THEN [rs |-> IF rs.pc = "resume"
                  THEN resumeBound([rs EXCEPT !.atBound = TRUE], now)
                  ELSE missBound([rs EXCEPT !.atBound = TRUE], now),
           caught |-> FALSE]
     ELSE IF rs.pc = "resume"
     THEN [rs |-> resumeStep(noted, out, now), caught |-> out.caught]
     ELSE [rs |-> missStep(noted, out, now), caught |-> out.caught]

\* electrumCall (fulcrum-client.ts 277-280) of member k settles: always
\* when the backend is up or the constructor of the pool throws; against
\* an unreachable backend only the call that awaits initialize() does, by
\* rejecting, and the requests queued in the pool stay there.
callSettles(rn, k) ==
  rn.backend = "unreachable" => (rn.globalPool = "initializing" /\ rn.owner = k)

\* The backend calls of member k's pending check that reject: any one
\* when the backend is up, the first when the pool cannot be set up.
callFaults(rn, k) ==
  IF rn.backend = "up" THEN FailChoicesFor(rn.slots[k].rs) ELSE {1}

\* A member of the batch moves on.  Members of a batch that has already
\* rejected keep running.
RunResolve ==
  /\ run.pc \in {"batch", "thrown"}
  /\ \E k \in DOMAIN run.slots :
       /\ run.slots[k].st = "awaiting"
       /\ callSettles(run, k)
       /\ \E failAt \in callFaults(run, k) :
            LET step == resolutionStep(run.slots[k].rs, failAt, run.no)
            IN /\ run' = [run EXCEPT
                            !.slots[k] =
                              processOutputResume(run.slots[k].output, step.rs),
                            !.globalPool =
                              IF run.backend # "up" /\ step.caught
                              THEN "failed" ELSE @,
                            !.faulted = @ \/ step.caught]
               /\ faults' = IF run.backend = "up" /\ step.caught
                             THEN faults + 1 ELSE faults
  /\ UNCHANGED <<sq, ld, pool, ledger, cacheFile, useCache, r, cold>>

\* Promise.all rejects with the first rejection; the catch of line 642
\* rethrows it.
RunBatchReject ==
  /\ run.pc = "batch"
  /\ \E k \in DOMAIN run.slots : run.slots[k].st = "rejected"
  /\ run' = [run EXCEPT !.pc = "thrown"]
  /\ UNCHANGED <<sq, ld, pool, ledger, cacheFile, useCache, r, faults, cold>>

\* Promise.all fulfils; lines 539-586 and the i += concurrency of 597.
RunBatchEnd ==
  /\ run.pc = "batch"
  /\ \A k \in DOMAIN run.slots : run.slots[k].st = "fulfilled"
  /\ run' = [collectFrom(run, 1) EXCEPT !.pc = "loop", !.slots = <<>>,
                                        !.i = @ + run.concurrency]
  /\ UNCHANGED <<sq, ld, pool, ledger, cacheFile, useCache, r, faults, cold>>

\* Lines 602-641: the loop is over; the new cache is saved when useCache,
\* the registries are sorted and returned.  A save that throws is rethrown.
RunSave ==
  /\ run.pc = "loop"
  /\ run.i >= Len(run.validOutputs)
  /\ \E fault \in SaveFaults :
       LET saved == IF useCache
                    THEN saveAuthchainCache(run.newCache, cacheFile, fault)
                    ELSE [file |-> cacheFile, threw |-> FALSE]
       IN /\ cacheFile' = saved.file
          /\ run' = IF saved.threw
                    THEN [run EXCEPT !.pc = "thrown", !.response = <<>>]
                    ELSE [run EXCEPT !.pc = "returned", !.response = <<>>,
                            !.registries = sortByBlockHeight(@)]
  /\ UNCHANGED <<sq, ld, pool, ledger, useCache, r, faults, cold>>

\* What a call leaves behind when it returned and saved its cache: its
\* candidates and registries, the ledger it ran on, the cache file it
\* wrote, and whether one of its spend checks failed.
Ended(rn) ==
  IF rn.pc = "returned" /\ useCache
  THEN <<[faulted |-> rn.faulted, validOutputs |-> rn.validOutputs,
          registries |-> rn.registries, len |-> ledger.len,
          file |-> cacheFile]>>
  ELSE <<>>

\* The caller has the outcome; the process ends.
RunEnd ==
  /\ run.pc \in {"returned", "thrown"}
  /\ run' = [IdleRun EXCEPT !.no = run.no, !.prev = Ended(run)]
  /\ UNCHANGED <<sq, ld, pool, ledger, cacheFile, useCache, r, faults, cold>>

RunNext ==
  \/ RunExtend \/ RunStart \/ RunFetch \/ RunBatchStart \/ RunResolve
  \/ RunBatchReject \/ RunBatchEnd \/ RunSave \/ RunEnd

RunSpec == RunInit /\ [][RunNext]_vars

-----------------------------------------------------------------------------
(* LoadSpec: loadAuthchainCache applied to any cache file.                 *)

\* What may stand under a key of the entries object: an entry of the
\* chain of one transaction, active or not, or an object that lacks the
\* fields of an entry.
LdValues ==
  {Entry(1, 1, 1, TRUE, 0), Entry(1, 1, 1, FALSE, 0), [authbase |-> 1]}

\* The entries objects: empty, or one value under key 1.
LdEntries == {<<>>} \cup {(1 :> v) : v \in LdValues}

\* The cache files: none, or any text.
LdFiles ==
  {<<>>} \cup
  {<<FileText(c, k, vt, v, et, e)>> :
     c \in BOOLEAN, k \in {"object", "null"},
     vt \in {"number", "string", "missing"}, v \in 0 .. MaxVersion,
     et \in {"object", "string", "missing"}, e \in LdEntries}

LdInit ==
  /\ ld \in {[file |-> f, out |-> <<>>] : f \in LdFiles}
  /\ sq = <<>>
  /\ ledger = [len |-> 1, loop |-> null]
  /\ cacheFile = <<>>
  /\ useCache = TRUE
  /\ r = IdleResolution
  /\ faults = 0
  /\ cold = <<>>
  /\ run = IdleRun
  /\ pool = <<>>

\* oldCache = loadAuthchainCache(cachePath)
LdLoad ==
  /\ ld.out = <<>>
  /\ ld' = [ld EXCEPT !.out = <<loadAuthchainCache(ld.file)>>]
  /\ UNCHANGED <<sq, resVars, run, pool>>

LdNext == LdLoad

LoadSpec == LdInit /\ [][LdNext]_vars

-----------------------------------------------------------------------------
(* PoolSpec: one FulcrumConnectionPool, its callers, its sockets and the   *)
(* backend behind them.  A socket may fail or drop only while a number is  *)
(* left for the socket that replaces it.                                   *)

Sockets == DOMAIN pool.readyState

inState(st) == {ws \in Sockets : pool.readyState[ws] = st}

roomToReplace ==
  pool.isClosing
    \/ Len(pool.readyState) + Cardinality(inState("closing")) < MaxSockets

PoolInit ==
  /\ pool \in {NewPool(n) : n \in 1 .. MaxPool}
  /\ sq = <<>>
  /\ ledger = [len |-> 1, loop |-> null]
  /\ cacheFile = <<>>
  /\ useCache = TRUE
  /\ r = IdleResolution
  /\ faults = 0
  /\ cold = <<>>
  /\ run = IdleRun
  /\ ld = <<>>

\* getConnectionPool: await globalPool.initialize()
PoolInitialize ==
  /\ ~pool.initialized
  /\ pool' = initialize(pool)
  /\ UNCHANGED <<sq, resVars, run, ld>>

\* electrumCall: pool.call(method, params) on the pool getConnectionPool
\* returned; once closeConnectionPool has closed this pool, later calls go
\* to a new one
PoolCall ==
  /\ pool.initialized
  /\ ~pool.isClosing
  /\ pool.nextRequestId <= MaxCalls
  /\ \E throws \in BOOLEAN : pool' = call(pool, throws)
  /\ UNCHANGED <<sq, resVars, run, ld>>

\* the backend answers the oldest request it received on ws and the
\* 'message' event fires
PoolMessage ==
  /\ \E ws \in inState("open") \cup inState("closing"),
        kind \in MessageKinds, throws \in BOOLEAN :
       /\ pool.wire[ws] # <<>>
       /\ pool' = onMessage([pool EXCEPT !.wire[ws] = Tail(@)], ws,
                            Message(kind, Head(pool.wire[ws])), throws)
  /\ UNCHANGED <<sq, resVars, run, ld>>

\* the 'open' event of a connection attempt
PoolSocketOpen ==
  /\ \E ws \in inState("connecting") : pool' = onOpen(pool, ws)
  /\ UNCHANGED <<sq, resVars, run, ld>>

\* a connection attempt fails or times out: 'error', then 'close'
PoolSocketError ==
  /\ roomToReplace
  /\ \E ws \in inState("connecting") : pool' = onClose(pool, ws)
  /\ UNCHANGED <<sq, resVars, run, ld>>

\* the closing handshake of an open socket starts; its 'close' event has
\* not fired yet
PoolSocketClosing ==
  /\ roomToReplace
  /\ \E ws \in inState("open") :
       pool' = [pool EXCEPT !.readyState[ws] = "closing", !.wire[ws] = <<>>]
  /\ UNCHANGED <<sq, resVars, run, ld>>

\* the 'close' event of a socket that was open
PoolSocketClose ==
  /\ \E ws \in inState("open") \cup inState("closing") :
       /\ pool.readyState[ws] = "open" => roomToReplace
       /\ pool' = onClose(pool, ws)
  /\ UNCHANGED <<sq, resVars, run, ld>>

\* closeConnectionPool: await globalPool.close()
PoolClose ==
  /\ pool.initialized
  /\ ~pool.isClosing
  /\ pool' = close(pool)
  /\ UNCHANGED <<sq, resVars, run, ld>>

PoolNext ==
  \/ PoolInitialize
  \/ PoolCall
  \/ PoolMessage
  \/ PoolSocketOpen
  \/ PoolSocketError
  \/ PoolSocketClosing
  \/ PoolSocketClose
  \/ PoolClose

PoolSpec == PoolInit /\ [][PoolNext]_vars

\* PoolSpec with a backend that can be reached and an event loop that runs:
\* a connection attempt that does not fail opens, and a request that reached
\* the backend over a socket that stays open is answered
PoolLive ==
  PoolSpec /\ WF_vars(PoolSocketOpen) /\ WF_vars(PoolMessage)

-----------------------------------------------------------------------------
(* BacklogSpec: the pool with the members of a batch as its callers.       *)
(* run.concurrency is the limit of the run; member k stands for the k-th   *)
(* resolution in progress, one batch after the other.                      *)

BacklogInit ==
  /\ pool \in {NewPool(n) : n \in 1 .. MaxPool}
  /\ run \in {[IdleRun EXCEPT !.concurrency = concurrencyOf(option)] :
                option \in 1 .. MaxConcurrency}
  /\ sq = <<>>
  /\ ledger = [len |-> 1, loop |-> null]
  /\ cacheFile = <<>>
  /\ useCache = TRUE
  /\ r = IdleResolution
  /\ faults = 0
  /\ cold = <<>>
  /\ ld = <<>>

\* the requests of member k that have not settled
outstanding(p, k) ==
  {id \in DOMAIN p.caller : p.caller[id] = k /\ p.promise[id] = "pending"}

\* every electrumCall of getOutputSpendingTx is awaited before the next is
\* made, and resolveAuthchain awaits every getOutputSpendingTx
mayCall(p, k) == outstanding(p, k) = {}

\* a spend check of member k makes its next electrumCall
MemberCall ==
  /\ pool.initialized
  /\ ~pool.isClosing
  /\ pool.nextRequestId <= MaxCalls
  /\ \E k \in 1 .. run.concurrency, throws \in BOOLEAN :
       /\ mayCall(pool, k)
       /\ pool' = [call(pool, throws) EXCEPT !.caller = Append(pool.caller, k)]
  /\ UNCHANGED <<sq, resVars, run, ld>>

BacklogNext ==
  \/ PoolInitialize
  \/ MemberCall
  \/ PoolMessage
  \/ PoolSocketOpen
  \/ PoolSocketError
  \/ PoolSocketClosing
  \/ PoolSocketClose
  \/ PoolClose

BacklogSpec == BacklogInit /\ [][BacklogNext]_vars


-----------------------------------------------------------------------------
(* Properties of the spend check (SpendSpec)                               *)

SqHistory == sq.bk.history[calculateScripthash(SqScript)]

\* Position of the first occurrence of the queried transaction, 0 if none.
SqOurPos ==
  IF \E i \in 1 .. Len(SqHistory) : SqHistory[i] = sq.txid
  THEN CHOOSE i \in 1 .. Len(SqHistory) :
         /\ SqHistory[i] = sq.txid
         /\ \A j \in 1 .. i - 1 : SqHistory[j] # sq.txid
  ELSE 0

\* Positions after the queried transaction whose inputs spend the output.
SqSpenders ==
  {i \in SqOurPos + 1 .. Len(SqHistory) :
     <<sq.txid, sq.vout>> \in sq.bk.tx[SqHistory[i]].vin}

SqFirstSpender == CHOOSE i \in SqSpenders : \A j \in SqSpenders : i <= j

SqOutputExists == sq.vout + 1 <= Len(sq.bk.tx[sq.txid].vout)

\* The position whose fetch is the failing backend call, when the scan gets
\* that far: calls 1 and 2 fetch the transaction and the history, call 3
\* the entry after the queried transaction, and so on.
SqFailPos == SqOurPos + (sq.failAt - 2)

SqCandidateFetchFails ==
  /\ SqOutputExists
  /\ sq.failAt >= 3
  /\ SqOurPos > 0
  /\ SqFailPos <= Len(SqHistory)
  /\ \A i \in SqSpenders : i >= SqFailPos

\* C8: getOutputSpendingTx never throws or rejects; when fetching the
\* transaction, the history or a candidate transaction fails, or the
\* queried output index does not exist, it returns null.
C8_FailSoft ==
  sq.out # <<>> =>
    /\ ~sq.out[1].threw
    /\ sq.failAt = 1 => sq.out[1].result = null
    /\ ~SqOutputExists => sq.out[1].result = null
    /\ sq.failAt = 2 => sq.out[1].result = null
    /\ SqCandidateFetchFails => sq.out[1].result = null

\* A candidate fetch failed although a later entry spends the output.
C8_Witness ==
  /\ sq.out # <<>>
  /\ SqCandidateFetchFails
  /\ SqSpenders # {}
  /\ sq.out[1].result = null
  /\ ~sq.out[1].threw

\* C9: on a fault-free backend getOutputSpendingTx returns null when the
\* queried transaction is not in the history; otherwise the first entry
\* after it whose inputs contain (txid, vout), or null when there is none;
\* it fetches the entries after the queried transaction in order, up to the
\* spender, and none of the entries before it.
C9_SpendResult ==
  (sq.out # <<>> /\ sq.failAt = 0 /\ SqOutputExists) =>
    IF SqOurPos = 0
    THEN sq.out[1].result = null /\ sq.out[1].fetched = <<sq.txid>>
    ELSE IF SqSpenders = {}
    THEN /\ sq.out[1].result = null
         /\ sq.out[1].fetched =
              <<sq.txid>> \o SubSeq(SqHistory, SqOurPos + 1, Len(SqHistory))
    ELSE /\ sq.out[1].result = SqHistory[SqFirstSpender]
         /\ sq.out[1].fetched =
              <<sq.txid>> \o SubSeq(SqHistory, SqOurPos + 1, SqFirstSpender)

\* The spender is found behind an entry that does not spend the output,
\* and a transaction with a matching input stands before the queried one.
C9_Witness ==
  /\ sq.out # <<>> /\ sq.failAt = 0 /\ SqOutputExists
  /\ SqOurPos > 1
  /\ <<sq.txid, sq.vout>> \in sq.bk.tx[SqHistory[1]].vin
  /\ SqSpenders # {}
  /\ SqFirstSpender > SqOurPos + 1
  /\ sq.out[1].result = SqHistory[SqFirstSpender]
  /\ sq.out[1].result # SqHistory[1]

-----------------------------------------------------------------------------
(* Properties of resolveAuthchain (Spec)                                   *)

Done == r.pc = "done"
Res == r.result[1]
Cached == r.cachedEntry[1]
HasCached == r.cachedEntry # <<>>
Acyclic == ledger.loop = null

\* C1: for a cached entry with isActive = FALSE resolveAuthchain returns
\* that entry unchanged, timestamp included, issues no spend check and
\* reports 'perfect', whatever the ledger says.
C1_Permanence ==
  (r.pc # "idle" /\ HasCached /\ ~Cached.isActive) =>
    /\ Done
    /\ Res.entry = Cached
    /\ Res.queriesUsed = 0
    /\ r.issued = 0
    /\ Res.cacheHitType = "perfect"

\* The cached authhead is the tip of the chain and its output 0 is unspent
\* on the ledger, and still the inactive entry is returned as it is.
C1_Witness ==
  /\ Done /\ HasCached /\ ~Cached.isActive
  /\ Acyclic /\ Cached.authhead = ledger.len
  /\ Res.cacheHitType = "perfect"

\* C2: on a chain shorter than the hop bound and without faults, resolving
\* with a cache entry left by an earlier resolution gives the same authhead,
\* chainLength and isActive as resolving the same ledger without cache.
C2_WalkEquivalence ==
  (/\ Done /\ HasCached /\ ~r.faulted
   /\ cold # <<>>
   /\ Acyclic /\ ledger.len < maxChainLength) =>
    Outcome(Res.entry) = cold[1]

\* A resumed walk of at least one hop beyond the spender is compared with
\* the walk from the authbase.
C2_Witness ==
  /\ Done /\ HasCached /\ ~r.faulted /\ cold # <<>>
  /\ Acyclic /\ ledger.len < maxChainLength
  /\ Res.cacheHitType = "partial"
  /\ Res.entry.chainLength > Cached.chainLength + 1
  /\ Outcome(Res.entry) = cold[1]

\* C3: when a backend call fails during the walk, the resolved entry has
\* isActive = FALSE.
C3_FailClosed == (Done /\ r.faulted) => ~Res.entry.isActive

\* Hops from the spender of the cached authhead to the tip.
HopsBeyond == ledger.len - (Cached.authhead + 1)

ResumeCase ==
  /\ Done /\ HasCached /\ Cached.isActive
  /\ Acyclic /\ Cached.authhead < ledger.len
  /\ Cached.chainLength + 1 + HopsBeyond < maxChainLength

ResumeResult ==
  /\ Res.entry.authhead = ledger.len
  /\ Res.entry.chainLength = Cached.chainLength + 1 + HopsBeyond
  /\ Res.entry.isActive
  /\ Res.cacheHitType = "partial"
  /\ \A t \in r.queried : t >= Cached.authhead

C5_Probe ==
  (/\ Done /\ HasCached /\ Cached.isActive
   /\ spentBy(ledger, Cached.authhead) = null) =>
    /\ r.issued = 1
    /\ r.queried = {Cached.authhead}
    /\ Res.queriesUsed = 1
    /\ Res.cacheHitType = "good"
    /\ [Res.entry EXCEPT !.lastCheckedTimestamp = Cached.lastCheckedTimestamp]
         = Cached

\* A good hit on an authhead other than the authbase, with a new timestamp.
C5_Witness ==
  /\ Done /\ HasCached /\ Cached.isActive
  /\ spentBy(ledger, Cached.authhead) = null
  /\ Cached.authhead # Authbase
  /\ Res.cacheHitType = "good"
  /\ Res.entry.lastCheckedTimestamp # Cached.lastCheckedTimestamp

ColdCase ==
  /\ Done /\ ~HasCached
  /\ Acyclic /\ ledger.len < maxChainLength

ColdResult ==
  /\ Res.entry.authhead = ledger.len
  /\ Res.entry.chainLength = ledger.len
  /\ Res.entry.isActive
  /\ Res.cacheHitType = "miss"
  /\ Res.queriesUsed = ledger.len
  /\ r.issued = ledger.len

C7_BoundSafety ==
  /\ r.chainLength <= maxChainLength
  /\ r.issued <= maxChainLength
  /\ r.pc = "miss" => r.chainLength = r.issued + 1
  /\ r.pc = "resume" => r.chainLength = Cached.chainLength + r.issued
  /\ r.atBound => (Done /\ ~Res.entry.isActive
                        /\ Res.entry.chainLength = maxChainLength)

\* A resumed walk on cyclic data stops at the bound.
C7_Witness ==
  /\ Done /\ r.atBound /\ ~Acyclic
  /\ Res.cacheHitType = "partial"
  /\ ~Res.entry.isActive

-----------------------------------------------------------------------------
(* Properties of a run (RunSpec)                                           *)

\* C10: a call of getBCMRRegistries that has thrown has left the cache
\* file exactly as it was when the call began.
C10_ThrowLeavesFile == run.pc = "thrown" => cacheFile = run.startFile

\* C11: at every instant the cache file, when it exists, holds a complete
\* snapshot (the previous one or the new one), never a partial one.
C11_AtomicSnapshot == cacheFile # <<>> => cacheFile[1].complete

-----------------------------------------------------------------------------
(* Properties of loadAuthchainCache (LoadSpec)                             *)

\* The fields of an AuthchainCacheEntry.
EntryFields ==
  {"authbase", "authhead", "chainLength", "isActive", "lastCheckedTimestamp"}

\* The file is a well-formed version-1 cache.
LdWellFormed ==
  /\ ld.file # <<>>
  /\ ld.file[1].complete
  /\ ld.file[1].kind = "object"
  /\ ld.file[1].version = [type |-> "number", value |-> 1]
  /\ ld.file[1].entries.type = "object"
  /\ \A k \in DOMAIN ld.file[1].entries.value :
       DOMAIN ld.file[1].entries.value[k] = EntryFields

\* C12: loadAuthchainCache returns the content of a well-formed version-1
\* cache file, and an empty version-1 cache for every other file: missing,
\* unparseable, without numeric version, of another version, or with
\* malformed entries.
C12_LoadRobust ==
  ld.out # <<>> =>
    IF LdWellFormed
    THEN ld.out[1] = [version |-> 1, entries |-> ld.file[1].entries.value]
    ELSE ld.out[1] = createEmptyCache

-----------------------------------------------------------------------------
(* Properties of a run with a backend that cannot be reached (RunSpec)     *)

\* C13: when the pool could not be set up, the run does not return, no
\* candidate is resolved, no cache entry is built and the cache file is
\* not written.
C13_StartupFatal ==
  run.globalPool = "failed" =>
    /\ run.pc # "returned"
    /\ \A k \in DOMAIN run.slots : run.slots[k].rs.pc # "done"
    /\ run.registries = <<>>
    /\ run.newCache.entries = <<>>
    /\ cacheFile = run.startFile

-----------------------------------------------------------------------------
(* Properties of PoolSpec.                                                 *)

Requests == DOMAIN pool.promise

queued == {pool.requestQueue[i] : i \in DOMAIN pool.requestQueue}

increasing(seq) == \A i, j \in DOMAIN seq : i < j => seq[i] < seq[j]

ownResponse(id) ==
  /\ Len(pool.settled[id]) = 1
  /\ pool.settled[id][1].by = "response"
  /\ pool.settled[id][1].id = id
  /\ pool.promise[id] =
       (IF pool.settled[id][1].error THEN "rejected" ELSE "resolved")

\* C14: request ids are handed out in strictly increasing order and no two
\* outstanding requests share one; a promise is settled at most once, and
\* only by the response that carries its own id: resolved when the response
\* carries a result, rejected when it carries an error.
C14_Correlation ==
  /\ increasing(pool.requestQueue)
  /\ queued \cap pool.pendingRequests = {}
  /\ \A id \in queued \cup pool.pendingRequests : id < pool.nextRequestId
  /\ \A id \in Requests :
       /\ Len(pool.settled[id]) <= 1
       /\ pool.promise[id] = "pending" <=> pool.settled[id] = <<>>
       /\ pool.promise[id] # "pending" => ownResponse(id)

sentIds == {pool.order[i] : i \in DOMAIN pool.order}

\* C15: requests are sent in the order call() was invoked, and none is sent
\* while an earlier one still waits in the queue: the ids sent so far are in
\* increasing order, the queue is in increasing order, and every id in the
\* queue is larger than every id already sent.
C15_Fifo ==
  /\ increasing(pool.order)
  /\ increasing(pool.requestQueue)
  /\ \A id \in queued, s \in sentIds : s < id

\* a pool of one connection has sent two requests while a third one waits
C15_Witness ==
  /\ pool.poolSize = 1
  /\ Len(pool.order) >= 2
  /\ queued # {}

\* the requests sent on ws that are still awaiting their response
inflight(ws) == {id \in pool.pendingRequests : pool.sentOn[id] = ws}

idle == {pool.availableConnections[i] : i \in DOMAIN pool.availableConnections}

\* C16: every connection carries at most one sent-but-unanswered request, a
\* connection in the idle set carries none (requests go out only on idle
\* connections), and the number of requests sent and awaiting a response
\* never exceeds the pool size.
C16_BoundedFanOut ==
  /\ \A ws \in Sockets : Cardinality(inflight(ws)) <= 1
  /\ \A ws \in idle : inflight(ws) = {}
  /\ Cardinality(pool.pendingRequests) <= pool.poolSize

rejectedBySend(id) ==
  \E i \in DOMAIN pool.settled[id] : pool.settled[id][i].by = "send"

\* C17: when sending a request throws, the caller is not rejected and the
\* request is not lost: until the pool closes it is back in the queue, or
\* sent again and awaiting its response, or settled by its response; the
\* other queued requests keep their order.
C17_SendFailure ==
  /\ \A id \in pool.sendFailed :
       /\ ~rejectedBySend(id)
       /\ ~pool.isClosing =>
            \/ id \in queued \cup pool.pendingRequests
            \/ pool.promise[id] # "pending"
  /\ increasing(SelectSeq(pool.requestQueue,
                          LAMBDA id : id \notin pool.sendFailed))

live == Len(pool.connections)

attempts == Cardinality(inState("connecting"))

\* C18: while the pool is not closing, a connection that drops or fails to
\* open is replaced by a new attempt, so live connections and attempts in
\* progress add up to the pool size; the live count never exceeds the pool
\* size, and with a reachable backend it is eventually back at the pool size.
C18_Reconnection ==
  /\ [](live <= pool.poolSize)
  /\ [](pool.initialized /\ ~pool.isClosing
          => live + attempts = pool.poolSize)
  /\ (pool.initialized /\ ~pool.isClosing /\ live < pool.poolSize)
       ~> (pool.isClosing \/ live = pool.poolSize)

\* a connection that carried a request has dropped and the pool is back at
\* its size
C18_Witness ==
  /\ ~pool.isClosing
  /\ \E id \in Requests :
       pool.sentOn[id] # 0 /\ pool.readyState[pool.sentOn[id]] = "closed"
  /\ live = pool.poolSize

\* request id was sent on a connection that has dropped since, and its
\* promise is still pending
orphaned(id) ==
  /\ id \in Requests
  /\ id \in pool.pendingRequests
  /\ pool.readyState[pool.sentOn[id]] = "closed"

settledOrClosed(id) ==
  \/ pool.isClosing
  \/ id \in Requests /\ pool.promise[id] # "pending"

\* C19: a request that was in flight on a connection that dropped is still
\* settled (or the pool is closed): its caller, the spend check that awaits
\* it and the resolution that awaits the spend check do not wait for ever.
C19_DropRecovered ==
  \A id \in 1 .. MaxCalls : orphaned(id) ~> settledOrClosed(id)

\* request id was in flight on a connection that received a response which
\* did not parse or carried an unknown id
garbledOn(id) == id \in pool.garbled

gone(id) == pool.isClosing \/ pool.readyState[pool.sentOn[id]] # "open"

servesAgain(id) ==
  \/ pool.sentOn[id] \in idle
  \/ \E later \in Requests :
       later > id /\ pool.sentOn[later] = pool.sentOn[id]

settledAfterGarble(id) ==
  garbledOn(id) /\ (gone(id) \/ pool.promise[id] # "pending")

idleAfterGarble(id) ==
  garbledOn(id) /\ (gone(id) \/ servesAgain(id))

\* C20: a request in flight on a connection that receives an unparseable or
\* unknown-id response is still settled, and the connection becomes idle
\* again and serves later requests, unless the connection drops or the pool
\* is closed.
C20_MalformedRecovered ==
  \A id \in 1 .. MaxCalls :
    /\ garbledOn(id) ~> settledAfterGarble(id)
    /\ garbledOn(id) ~> idleAfterGarble(id)

\* request id was handed to ws.send
wasSent(id) == id \in Requests /\ pool.sentOn[id] # 0

\* C21: every call that was sent is eventually settled, answered or not: an
\* unanswered call is rejected by its timeout (or the pool is closed, which
\* abandons it).
C21_CallTimeout ==
  \A id \in 1 .. MaxCalls : wasSent(id) ~> settledOrClosed(id)

\* the step taken is close()
closes == ~pool.isClosing /\ pool'.isClosing

emptied(p) ==
  /\ p.connections = <<>>
  /\ p.availableConnections = <<>>
  /\ p.pendingRequests = {}
  /\ p.requestQueue = <<>>

\* C22: close() leaves the connection set, the idle set, the pending map and
\* the request queue empty, whatever was queued or in flight, and neither
\* close() nor any later step resolves or rejects a caller it abandoned.
C22_CloseSafe ==
  [][/\ closes => emptied(pool')
     /\ pool'.isClosing =>
          pool'.promise = pool.promise /\ pool'.settled = pool.settled]_vars

\* the pool was closed with one request in flight and another in the queue
C22_Witness ==
  /\ pool.isClosing
  /\ \E id \in Requests : pool.promise[id] = "pending" /\ pool.sentOn[id] # 0
  /\ \E id \in Requests : pool.promise[id] = "pending" /\ pool.sentOn[id] = 0

\* C33: between two handlers, requests wait in the queue only while no
\* connection is idle.
C33_QueueOnlyWhenBusy ==
  pool.requestQueue # <<>> => pool.availableConnections = <<>>

\* C34: once close() has been called the pool has no connection: none is
\* in the connection set or in the idle set.
C34_NoConnectionAfterClose ==
  pool.isClosing =>
    /\ pool.connections = <<>>
    /\ pool.availableConnections = <<>>

\* await globalPool.initialize() has settled: none of the sockets that
\* initialize() created is still connecting
initializeSettled ==
  /\ pool.initialized
  /\ \A ws \in 1 .. pool.poolSize : pool.readyState[ws] # "connecting"

\* C35: no caller has the pool, and so no call() is made on it, before its
\* initialize() has finished.
C35_PoolReadiness == pool.nextRequestId > 1 => initializeSettled

noDuplicates(seq) ==
  \A i, j \in DOMAIN seq : seq[i] = seq[j] => i = j

\* C39: the idle set is part of the connection set and names no connection
\* twice, no idle connection has a request that was sent on it and is not
\* answered, and no request is both in the queue and in the pending map.
C39_Bookkeeping ==
  /\ \A ws \in idle : includes(pool.connections, ws)
  /\ noDuplicates(pool.availableConnections)
  /\ noDuplicates(pool.connections)
  /\ \A ws \in idle : inflight(ws) = {}
  /\ queued \cap pool.pendingRequests = {}
  /\ noDuplicates(pool.requestQueue)

\* a pool with a request waiting, a request in flight and an idle connection
C39_Witness ==
  /\ pool.requestQueue # <<>>
  /\ pool.pendingRequests # {}
  /\ pool.availableConnections # <<>>
  /\ Len(pool.connections) >= 2

\* the requests that are queued or sent and not answered
backlog == Len(pool.requestQueue) + Cardinality(pool.pendingRequests)

\* C36: the number of requests queued or awaiting a response is at most the
\* concurrency of the run, and every member of a batch has at most one
\* request that is not settled.
C36_BacklogBound ==
  /\ backlog <= run.concurrency
  /\ \A k \in 1 .. run.concurrency : Cardinality(outstanding(pool, k)) <= 1

\* the backlog is at the limit of a run of two, one of its requests was
\* sent on a connection that dropped, and a request before them was answered
C36_Witness ==
  /\ run.concurrency = 2
  /\ backlog = 2
  /\ \E id \in pool.pendingRequests :
       pool.readyState[pool.sentOn[id]] = "closed"
  /\ \E id \in DOMAIN pool.promise : pool.promise[id] = "resolved"

-----------------------------------------------------------------------------
(* Properties of RunSpec.                                                  *)

inProgress == {k \in DOMAIN run.slots : run.slots[k].st = "awaiting"}

parses(output) == parseBCMRBytecode(output.locking_bytecode) # <<>>

recordOf(reg) ==
  [authbase |-> reg.authbase, authhead |-> reg.authhead,
   authchainLength |-> reg.authchainLength,
   isAuthheadUnspent |-> reg.isAuthheadUnspent,
   isBurned |-> reg.isBurned, isValid |-> reg.isValid,
   hash |-> reg.hash, uris |-> reg.uris]

recordsOf(registries) ==
  {recordOf(registries[i]) : i \in DOMAIN registries}

\* this call has returned with the cache the call before it wrote, over the
\* same candidates and the same ledger, and no spend check of either failed
secondOfTwo ==
  /\ run.pc = "returned"
  /\ useCache
  /\ ~run.faulted
  /\ run.prev # <<>>
  /\ ~run.prev[1].faulted
  /\ run.prev[1].validOutputs = run.validOutputs
  /\ run.prev[1].len = ledger.len

\* C24: the second of two consecutive successful cached runs over the same
\* candidates, with no ledger change and no failed spend check, returns
\* registry records that agree with the first run's in authbase, authhead,
\* authchainLength, isAuthheadUnspent, isBurned, isValid, hash and uris.
C24_RunIdempotence ==
  secondOfTwo =>
    /\ recordsOf(run.registries) = recordsOf(run.prev[1].registries)
    /\ Len(run.registries) = Len(run.prev[1].registries)

\* such a second run over a candidate whose chain has two transactions
C24_Witness ==
  /\ secondOfTwo
  /\ \E i \in DOMAIN run.registries : run.registries[i].authchainLength = 2

\* the resolution of a member of the batch that has returned
resolved == {k \in DOMAIN run.slots : run.slots[k].rs.pc = "done"}

\* the resolution walked from its authbase to the authhead it returned,
\* without a cached entry, and reports a miss
fullWalk(rs) ==
  /\ rs.cachedEntry = <<>>
  /\ rs.result[1].cacheHitType = "miss"
  /\ rs.queried = rs.authbaseTxid .. rs.result[1].entry.authhead

\* C25: during a run with useCache false the cache is not loaded, the cache
\* file stays as it was when the run began, and every candidate resolved is
\* resolved by a full walk from its authbase with outcome "miss".
C25_CachingDisabled ==
  (run.pc # "idle" /\ ~useCache) =>
    /\ run.oldCache = <<>>
    /\ cacheFile = run.startFile
    /\ \A k \in resolved : fullWalk(run.slots[k].rs)

\* a run without cache has resolved a candidate for which the cache file
\* holds an entry
C25_Witness ==
  /\ run.pc = "batch"
  /\ ~useCache
  /\ \E k \in resolved :
       cachedEntryOf(<<loadAuthchainCache(cacheFile)>>,
                     run.slots[k].rs.authbaseTxid) # <<>>

\* resolveAuthchain(authbase, undefined) against the ledger as it is, with
\* no spend check failing: the resolution from rs on
RECURSIVE coldWalk(_)
coldWalk(rs) ==
  IF rs.pc = "done" THEN rs
  ELSE coldWalk(resolutionStep(rs, 0, 0).rs)

coldRun(authbaseTxid) ==
  coldWalk(resolveEnter(authbaseTxid, <<>>)).result[1].entry

\* this call has returned, none of its spend checks failed, and its old
\* cache is the file written by a call one of whose spend checks failed
afterFaultyRun ==
  /\ run.pc = "returned"
  /\ useCache
  /\ ~run.faulted
  /\ run.prev # <<>>
  /\ run.prev[1].faulted

\* C27: a fault-free run that uses the cache written by a run whose spend
\* checks failed ends, for every candidate, with the authhead, chainLength
\* and isActive a fault-free run without cache would end with.
C27_NoSilentLoss ==
  afterFaultyRun =>
    \A a \in DOMAIN run.newCache.entries :
      Outcome(run.newCache.entries[a]) = Outcome(coldRun(a))

\* such a run for a candidate whose entry the faulty run had cached as
\* active at a transaction that was already spent
C27_Witness ==
  /\ afterFaultyRun
  /\ \E a \in DOMAIN run.newCache.entries :
       /\ a \in DOMAIN run.oldCache[1].entries
       /\ run.oldCache[1].entries[a].authhead < run.prev[1].len
       /\ run.newCache.entries[a].authhead = ledger.len

\* the authbase txids of the candidates whose locking script parses
parsedAuthbases ==
  {stripHexPrefix(run.validOutputs[j].transaction_hash) :
     j \in {i \in DOMAIN run.validOutputs : parses(run.validOutputs[i])}}

\* the call has saved its cache and returned
savedAndReturned == run.pc = "returned" /\ useCache

\* the cache file is the text of a cache of version 1 with these entries
holds(file, entries) ==
  /\ file # <<>>
  /\ file[1].complete /\ file[1].kind = "object"
  /\ file[1].version = [type |-> "number", value |-> 1]
  /\ file[1].entries = [type |-> "object", value |-> entries]

\* the for loop over the results of a batch stores the entry of every
\* resolution of the batch under its authbase and keeps the entries of the
\* batches before
batchStored ==
  (run.pc = "batch" /\ run'.pc = "loop") =>
    /\ \A k \in resolved :
         /\ run.slots[k].rs.authbaseTxid \in DOMAIN run'.newCache.entries
         /\ run'.newCache.entries[run.slots[k].rs.authbaseTxid]
              = run.slots[k].rs.result[1].entry
    /\ \A a \in DOMAIN run.newCache.entries :
         /\ a \in DOMAIN run'.newCache.entries
         /\ run'.newCache.entries[a] = run.newCache.entries[a]

txHashOf(output) == stripHexPrefix(output.transaction_hash)

\* the candidates kept for the transaction of output o
keptFor(o) ==
  {i \in DOMAIN run.validOutputs : txHashOf(run.validOutputs[i]) = txHashOf(o)}

\* the resolutions of the batch in progress
resolving == {k \in DOMAIN run.slots : run.slots[k].rs.pc # "idle"}

\* C38: the candidates are outputs of the response, one for each of its
\* transactions, the one with the lowest output index; no two candidates
\* have the same transaction, no two resolutions of a batch have the same
\* authbase, and none has an authbase that is already a key of the new cache.
C38_UniqueAuthbase ==
  /\ \A i, j \in DOMAIN run.validOutputs :
       txHashOf(run.validOutputs[i]) = txHashOf(run.validOutputs[j]) => i = j
  /\ run.response # <<>> =>
       /\ \A i \in DOMAIN run.validOutputs :
            \E n \in DOMAIN run.response[1] :
              run.response[1][n] = run.validOutputs[i]
       /\ \A n \in DOMAIN run.response[1] :
            /\ Cardinality(keptFor(run.response[1][n])) = 1
            /\ \A i \in keptFor(run.response[1][n]) :
                 run.validOutputs[i].output_index
                   <= run.response[1][n].output_index
  /\ \A k, j \in resolving :
       run.slots[k].rs.authbaseTxid = run.slots[j].rs.authbaseTxid => k = j
  /\ run.pc = "batch" =>
       \A k \in resolving :
         run.slots[k].rs.authbaseTxid \notin DOMAIN run.newCache.entries

\* the response names output 1 of a transaction before its output 0, and
\* output 0 is the candidate
C38_Witness ==
  /\ run.response # <<>>
  /\ Len(run.response[1]) = 2
  /\ txHashOf(run.response[1][1]) = txHashOf(run.response[1][2])
  /\ run.response[1][1].output_index > run.response[1][2].output_index
  /\ Len(run.validOutputs) = 1
  /\ run.validOutputs[1] = run.response[1][2]

\* C37: from the load to the return of a run the old cache is what
\* loadAuthchainCache made of the file the run found, and the cached entry a
\* resolution holds, which is the object in the old cache, is the entry
\* loaded for its authbase, on every path of the resolver.
C37_OldCacheUnchanged ==
  run.pc \in {"fetch", "loop", "batch", "returned"} =>
    /\ run.oldCache = oldCacheOf(useCache, run.startFile)
    /\ \A k \in resolving :
         run.slots[k].rs.cachedEntry =
           cachedEntryOf(oldCacheOf(useCache, run.startFile),
                         run.slots[k].rs.authbaseTxid)

\* a batch with a resolution that returned a good hit, with a new timestamp,
\* and one that resumed from its cached entry
C37_Witness ==
  /\ run.pc = "batch"
  /\ \E k \in resolving :
       /\ run.slots[k].rs.pc = "done"
       /\ run.slots[k].rs.result[1].cacheHitType = "good"
       /\ run.slots[k].rs.result[1].entry # run.slots[k].rs.cachedEntry[1]
  /\ \E k \in resolving :
       /\ run.slots[k].rs.pc = "done"
       /\ run.slots[k].rs.result[1].cacheHitType = "partial"

\* resolveAuthchain run by itself from rs on: every spend check is answered
\* by the ledger, but for the check of failTarget, which fails
RECURSIVE aloneWalk(_, _, _)
aloneWalk(rs, failTarget, now) ==
  IF rs.pc \in {"done", "thrown"} THEN rs
  ELSE aloneWalk(
         resolutionStep(rs, IF checkTarget(rs) = failTarget THEN 1 ELSE 0,
                        now).rs,
         failTarget, now)

\* what the resolution of member k returns when it is the only one of the
\* run, with the ledger, the old cache and the failed check of member k
alone(k) ==
  aloneWalk(resolveEnter(txHashOf(run.slots[k].output),
                         cachedEntryOf(run.oldCache,
                                       txHashOf(run.slots[k].output))),
            run.slots[k].rs.faultedAt, run.no).result

-----------------------------------------------------------------------------
(* More properties of resolveAuthchain (Spec).                             *)

\* C26: a resolution one of whose spend checks failed returns an entry with
\* isActive = TRUE whose authhead is the transaction the failed check was
\* about.
C26_UnknownActive ==
  (Done /\ r.faulted) =>
    /\ Res.entry.isActive
    /\ Res.entry.authhead = r.faultedAt

\* the check failed for a transaction whose output 0 is spent on the ledger
C26_Witness ==
  /\ Done /\ r.faulted /\ Acyclic
  /\ r.faultedAt < ledger.len

\* The entry of Authbase in the cache file, as the next cached run loads it.
persisted == cachedEntryOf(oldCacheOf(TRUE, cacheFile), Authbase)

\* The step in which a cached run that resolved Authbase saves its cache.
persists == r.pc = "done" /\ useCache /\ r'.pc = "idle"

\* C28: when a cached run saves an entry for an authbase that the cache
\* file already had an entry for, the new chainLength is at least 1 and at
\* least the old one, and an old entry with isActive = FALSE is saved again
\* with the same authhead, chainLength and isActive.
C28_CacheMonotonic ==
  [][(persists /\ persisted # <<>>) =>
       /\ persisted' # <<>>
       /\ persisted'[1].chainLength >= 1
       /\ persisted'[1].chainLength >= persisted[1].chainLength
       /\ ~persisted[1].isActive => Outcome(persisted'[1]) = Outcome(persisted[1])
    ]_vars

\* a cached run has resolved Authbase, whose chain reached the bound and
\* whose entry in the cache file is inactive
C28_Witness ==
  /\ Done /\ useCache /\ Acyclic
  /\ persisted # <<>> /\ ~persisted[1].isActive

\* the resolution is at an await of getOutputSpendingTx
checkPending == r.pc = "probe" \/ (r.pc \in {"resume", "miss"} /\ loopContinues(r))

\* C30: a step of a resolution receives the result of one spend check; the
\* check that is pending after it is about output 0 of the transaction that
\* result named, and the first check of a walk without cache is about the
\* authbase.
C30_SequentialHops ==
  /\ [](checkPending =>
          /\ r.issued = 0 /\ r.pc = "miss" => checkTarget(r) = r.authbaseTxid
          /\ r.issued > 0 => checkTarget(r) = r.lastResult)
  /\ [][r'.issued \in {0, r.issued, r.issued + 1}]_vars

\* the third check of a resumed walk is pending
C30_Witness ==
  /\ checkPending
  /\ r.pc = "resume"
  /\ r.issued = 2
  /\ Acyclic

\* the spend checks a result of each kind stands for
checksFor(rs) ==
  IF rs.result[1].cacheHitType = "perfect" THEN 0
  ELSE IF rs.result[1].cacheHitType = "good" THEN 1
  ELSE rs.issued

\* C32: the queriesUsed of a returned result is the number of spend checks
\* the resolution issued: 0 for 'perfect', 1 for 'good', the probe and the
\* checks of the walk for 'partial', the checks of the walk for 'miss', at
\* the bound and after a failed check too; and until it returns the
\* resolution's count is the number issued so far.
C32_QueryAccounting ==
  /\ Done =>
       /\ Res.queriesUsed = r.issued
       /\ Res.queriesUsed = checksFor(r)
  /\ r.pc \in {"resume", "miss"} => r.queriesUsed = r.issued

\* a resumed walk returned after a spend check of its walk failed
C32_Witness ==
  /\ Done /\ r.faulted
  /\ Res.cacheHitType = "partial"
  /\ Res.queriesUsed >= 2
====
